---- MODULE Spec2Model ----
(***************************************************************************)
(* Certificate portal (src/app.py): roll-based login, certificate          *)
(* generation and the persisted used-rolls list.                           *)
(*                                                                         *)
(* Every user interaction is one run of the script.  A run first loads     *)
(* the two CSV lists (lines 54-87) and then executes the handler of the    *)
(* button that was pressed (lines 92-217).  Sessions run in separate       *)
(* threads, so the runs of different sessions interleave between the load  *)
(* and the handler.  Strings are sequences of one-character strings.       *)
(***************************************************************************)
EXTENDS Integers, Sequences, FiniteSets, TLC

VARIABLES
    usedFile,       \* USED_ROLLS_FILE on disk: [exists, rows]
    session,        \* st.session_state of every session
    pc,             \* position of every session's script run
    clicked,        \* the button whose press started the latest run
    text,           \* value of the text widget the handler reads
    used_rolls,     \* the run's used_rolls data frame ('roll' column)
    msg,            \* inline message the run displayed
    issued,         \* rolls whose Generate Certificate reached line 191
    everUsed,       \* rolls that were in the used-list at some time
    seenUsed        \* the roll typed was in everUsed when the run loaded

vars == <<usedFile, session, pc, clicked, text, used_rolls, msg,
          issued, everUsed, seenUsed>>

----------------------------------------------------------------------------
(* Bounds *)

MaxUsedLen == 2

Sessions == {"a", "b"}

----------------------------------------------------------------------------
(* Configuration and inputs *)

ADMIN_ROLL == <<"A", "D", "M", "I", "N">>

S1 == <<"S", "1">>
S2 == <<"S", "2">>
S3 == <<"S", "3">>

\* allowed_rolls.csv, 'roll' column as stored (one entry carries blanks)
AllowedFile == {S1, <<" ">> \o S2 \o <<" ">>}

\* what a user may type into the roll field
RollInputs ==
    { <<>>, <<" ">>, <<" ">> \o S1 \o <<" ">>, S2, S3, ADMIN_ROLL,
      <<"a", "d", "m", "i", "n">> }

\* what a user may type into the name field
NameInputs == { <<>>, <<" ", " ">>, <<" ", "J", " ">> }

\* used_rolls.csv as the program may find it when it starts
InitialUsedFiles ==
    { [exists |-> FALSE, rows |-> <<>>],
      [exists |-> TRUE,  rows |-> << <<" ">> \o S3 >>] }

----------------------------------------------------------------------------
(* str.strip() *)

RECURSIVE lstrip(_)
lstrip(s) ==
    IF s = <<>> THEN <<>>
    ELSE IF Head(s) = " " THEN lstrip(Tail(s)) ELSE s

RECURSIVE rstrip(_)
rstrip(s) ==
    IF s = <<>> THEN <<>>
    ELSE IF s[Len(s)] = " " THEN rstrip(SubSeq(s, 1, Len(s) - 1)) ELSE s

strip(s) == rstrip(lstrip(s))

Values(column) == { column[i] : i \in 1..Len(column) }

StripColumn(column) == [ i \in 1..Len(column) |-> strip(column[i]) ]

----------------------------------------------------------------------------
(* Loading the lists *)

\* allowed_rolls['roll'] after the clean-up of line 69
allowed_rolls == { strip(r) : r \in AllowedFile }

\* the file after lines 76-77
EnsureUsedFile(f) == IF f.exists THEN f ELSE [exists |-> TRUE, rows |-> <<>>]

\* used_rolls after lines 79-87
ReadUsedRolls(f) == StripColumn(f.rows)

\* used_rolls_updated.to_csv(USED_ROLLS_FILE), lines 187-189
MarkUsedFile(used, roll) == [exists |-> TRUE, rows |-> Append(used, roll)]

\* the rolls the persisted used-list holds
UsedSet(f) == Values(StripColumn(f.rows))

----------------------------------------------------------------------------
(* Session state *)

None == [none |-> TRUE, bytes |-> <<>>]

Bytes(b) == [none |-> FALSE, bytes |-> b]

\* Python truth value of pdf_data
Truthy(v) == ~v.none /\ Len(v.bytes) > 0

InitialSession ==
    [ logged_in |-> FALSE, user_roll |-> <<>>, certificate_generated |-> FALSE,
      pdf_data |-> None, student_name |-> <<>> ]

\* the merged single page PDF written to output_stream
RenderPdf(name) == Bytes(<<"%PDF">> \o name)

\* the download section is displayed
Offered(sess) == sess.certificate_generated /\ Truthy(sess.pdf_data)

----------------------------------------------------------------------------
(* Pure parts of the handlers *)

\* LoginBranch with the used-list test ahead of the allow-list test
LoginBranchUsedFirst(roll_input, used) ==
    IF roll_input = <<>> THEN "warning"
    ELSE IF roll_input # ADMIN_ROLL /\ roll_input \in Values(used)
         THEN "already_used"
    ELSE IF roll_input # ADMIN_ROLL /\ roll_input \notin allowed_rolls
         THEN "not_found"
    ELSE "login"

\* the branch the Login button takes, lines 98-104
LoginBranch(roll_input, used) ==
    IF roll_input = <<>> THEN "warning"
    ELSE IF roll_input # ADMIN_ROLL /\ roll_input \notin allowed_rolls
         THEN "not_found"
    ELSE IF roll_input # ADMIN_ROLL /\ roll_input \in Values(used)
         THEN "already_used"
    ELSE "login"

\* the message each Login branch displays, lines 99-103
LoginMessage(branch) ==
    CASE branch = "warning"      -> "enter_roll"
      [] branch = "not_found"    -> "roll_not_found"
      [] branch = "already_used" -> "roll_already_used"
      [] OTHER                   -> "none"

\* LoginSession with user_roll assigned ahead of the checks
LoginSessionRollFirst(sess, branch, roll_input) ==
    IF branch = "login"
    THEN [sess EXCEPT !.logged_in = TRUE, !.user_roll = roll_input]
    ELSE [sess EXCEPT !.user_roll = roll_input]

\* session state after the Login button, lines 105-106
LoginSession(sess, branch, roll_input) ==
    IF branch = "login"
    THEN [sess EXCEPT !.logged_in = TRUE, !.user_roll = roll_input]
    ELSE sess

\* session state after the Logout button, lines 117-121
LogoutSession(sess) ==
    [sess EXCEPT !.logged_in = FALSE, !.user_roll = <<>>,
                 !.certificate_generated = FALSE, !.pdf_data = None,
                 !.student_name = <<>>]

\* session state after a render, lines 181-183
StoreCertificate(sess, name) ==
    [sess EXCEPT !.pdf_data = RenderPdf(strip(name)),
                 !.student_name = strip(name),
                 !.certificate_generated = TRUE]

\* TracksUsage without the admin exemption
TracksUsageAlways(roll) == TRUE

\* the guard of line 186
TracksUsage(roll) == roll # ADMIN_ROLL

\* AnotherSession without the reset of pdf_data
AnotherSessionKeepsPdf(sess) ==
    [sess EXCEPT !.certificate_generated = FALSE, !.student_name = <<>>]

\* session state after Generate Another Certificate, lines 214-216
AnotherSession(sess) ==
    [sess EXCEPT !.certificate_generated = FALSE, !.pdf_data = None,
                 !.student_name = <<>>]

\* the buttons the page displays for a session state
ButtonShown(sess, button) ==
    CASE button = "login"    -> ~sess.logged_in
      [] button = "logout"   -> sess.logged_in
      [] button = "generate" -> sess.logged_in
      [] button = "another"  -> sess.logged_in /\ Offered(sess)
                                /\ sess.user_roll = ADMIN_ROLL
      [] OTHER               -> TRUE

\* the text the handler of a button reads
WidgetValues(button) ==
    CASE button = "login"    -> RollInputs
      [] button = "generate" -> NameInputs
      [] OTHER               -> { <<>> }

Buttons == {"none", "login", "logout", "generate", "another"}

----------------------------------------------------------------------------
(* Initial state *)

Init ==
    /\ usedFile \in InitialUsedFiles
    /\ session = [s \in Sessions |-> InitialSession]
    /\ pc = [s \in Sessions |-> "idle"]
    /\ clicked = [s \in Sessions |-> "none"]
    /\ text = [s \in Sessions |-> <<>>]
    /\ used_rolls = [s \in Sessions |-> <<>>]
    /\ msg = [s \in Sessions |-> "none"]
    /\ issued = {}
    /\ everUsed = UsedSet(usedFile)
    /\ seenUsed = [s \in Sessions |-> FALSE]

----------------------------------------------------------------------------
(* A script run *)

\* a press of `button` (or a plain rerun) starts a run: lines 40-87
StartRun(s, button, value) ==
    /\ pc[s] = "idle"
    /\ ButtonShown(session[s], button)
    /\ value \in WidgetValues(button)
    /\ button = "generate" => Len(usedFile.rows) < MaxUsedLen
    /\ usedFile' = EnsureUsedFile(usedFile)
    /\ used_rolls' = [used_rolls EXCEPT ![s] = ReadUsedRolls(usedFile')]
    /\ pc' = [pc EXCEPT ![s] = "run"]
    /\ clicked' = [clicked EXCEPT ![s] = button]
    /\ text' = [text EXCEPT ![s] = value]
    /\ msg' = [msg EXCEPT ![s] = "none"]
    /\ seenUsed' = [seenUsed EXCEPT
                      ![s] = button = "login" /\ strip(value) \in everUsed]
    /\ UNCHANGED <<session, issued, everUsed>>

\* the run ends; st.rerun() redraws the page without message or field
EndRun(s, message, rerun) ==
    /\ pc' = [pc EXCEPT ![s] = "idle"]
    /\ UNCHANGED clicked
    /\ used_rolls' = [used_rolls EXCEPT ![s] = <<>>]
    /\ msg' = [msg EXCEPT ![s] = IF rerun THEN "none" ELSE message]
    /\ text' = [text EXCEPT ![s] = IF rerun THEN <<>> ELSE @]
    /\ seenUsed' = [seenUsed EXCEPT ![s] = (~rerun) /\ @]

\* no button pressed: the page is only drawn
NoButton(s) ==
    /\ pc[s] = "run" /\ clicked[s] = "none"
    /\ EndRun(s, "none", FALSE)
    /\ UNCHANGED <<usedFile, session, issued, everUsed>>

\* lines 92-107
Login(s) ==
    /\ pc[s] = "run" /\ clicked[s] = "login"
    /\ ~session[s].logged_in
    /\ LET roll_input == strip(text[s])
           branch == LoginBranch(roll_input, used_rolls[s])
       IN /\ session' = [session EXCEPT
                           ![s] = LoginSession(@, branch, roll_input)]
          /\ EndRun(s, LoginMessage(branch), branch = "login")
    /\ UNCHANGED <<usedFile, issued, everUsed>>

\* lines 116-122
Logout(s) ==
    /\ pc[s] = "run" /\ clicked[s] = "logout"
    /\ session[s].logged_in
    /\ session' = [session EXCEPT ![s] = LogoutSession(@)]
    /\ EndRun(s, "none", TRUE)
    /\ UNCHANGED <<usedFile, issued, everUsed>>

\* lines 136-138
GenerateNoName(s) ==
    /\ pc[s] = "run" /\ clicked[s] = "generate"
    /\ session[s].logged_in
    /\ strip(text[s]) = <<>>
    /\ EndRun(s, "enter_name", FALSE)
    /\ UNCHANGED <<usedFile, session, issued, everUsed>>

\* lines 139-140: the template file is absent
GenerateNoTemplate(s) ==
    /\ pc[s] = "run" /\ clicked[s] = "generate"
    /\ session[s].logged_in
    /\ strip(text[s]) # <<>>
    /\ EndRun(s, "template_not_found", FALSE)
    /\ UNCHANGED <<usedFile, session, issued, everUsed>>

\* lines 142-178 raise: the except branch of line 193
GenerateRenderError(s) ==
    /\ pc[s] = "run" /\ clicked[s] = "generate"
    /\ session[s].logged_in
    /\ strip(text[s]) # <<>>
    /\ EndRun(s, "error_generating", FALSE)
    /\ UNCHANGED <<usedFile, session, issued, everUsed>>

\* lines 181-189, where writing the used-list raises: the except branch
GenerateWriteError(s) ==
    /\ pc[s] = "run" /\ clicked[s] = "generate"
    /\ session[s].logged_in
    /\ strip(text[s]) # <<>>
    /\ TracksUsage(session[s].user_roll)
    /\ session' = [session EXCEPT ![s] = StoreCertificate(@, text[s])]
    /\ EndRun(s, "error_generating", FALSE)
    /\ UNCHANGED <<usedFile, issued, everUsed>>

\* lines 142-191 without an exception
Generate(s) ==
    /\ pc[s] = "run" /\ clicked[s] = "generate"
    /\ session[s].logged_in
    /\ strip(text[s]) # <<>>
    /\ session' = [session EXCEPT ![s] = StoreCertificate(@, text[s])]
    /\ usedFile' = IF TracksUsage(session[s].user_roll)
                   THEN MarkUsedFile(used_rolls[s], session[s].user_roll)
                   ELSE usedFile
    /\ issued' = issued \cup {session[s].user_roll}
    /\ everUsed' = everUsed \cup UsedSet(usedFile')
    /\ EndRun(s, "generated", FALSE)

\* lines 209-217
GenerateAnother(s) ==
    /\ pc[s] = "run" /\ clicked[s] = "another"
    /\ Offered(session[s]) /\ session[s].user_roll = ADMIN_ROLL
    /\ session' = [session EXCEPT ![s] = AnotherSession(@)]
    /\ EndRun(s, "none", TRUE)
    /\ UNCHANGED <<usedFile, issued, everUsed>>

Handler(s) ==
    \/ NoButton(s)
    \/ Login(s)
    \/ Logout(s)
    \/ GenerateNoName(s)
    \/ GenerateNoTemplate(s)
    \/ GenerateRenderError(s)
    \/ GenerateWriteError(s)
    \/ Generate(s)
    \/ GenerateAnother(s)

Next ==
    \E s \in Sessions :
        \/ \E button \in Buttons : \E value \in WidgetValues(button) :
               StartRun(s, button, value)
        \/ Handler(s)

Spec == Init /\ [][Next]_vars

\* every interaction runs to completion before the next one starts
StartRunAlone(s, button, value) ==
    /\ \A u \in Sessions : pc[u] = "idle"
    /\ StartRun(s, button, value)

NextSerial ==
    \E s \in Sessions :
        \/ \E button \in Buttons : \E value \in WidgetValues(button) :
               StartRunAlone(s, button, value)
        \/ Handler(s)

SpecSerial == Init /\ [][NextSerial]_vars

----------------------------------------------------------------------------
(* Vocabulary of the properties *)

\* this step is the load of a run of session s
LoadStep(s) == pc[s] = "idle" /\ pc'[s] = "run"

\* this step is the handler of a run of session s started by `button`
HandlerStep(s, button) ==
    pc[s] = "run" /\ pc'[s] = "idle" /\ clicked[s] = button

\* the handler of session s has finished the run started by `button`
Finished(s, button) == pc[s] = "idle" /\ clicked[s] = button

Occurrences(column, roll) ==
    Cardinality({ i \in 1..Len(column) : column[i] = roll })

\* the admission contract: the decision for a trimmed roll
admit(roll, allowedSet, usedSet) ==
    CASE roll = <<>>             -> "NoAttempt"
      [] roll = ADMIN_ROLL       -> "Admitted"
      [] roll \notin allowedSet  -> "RejectedUnknown"
      [] roll \in usedSet        -> "RejectedUsed"
      [] OTHER                   -> "Admitted"

ErrorOf(decision) ==
    CASE decision = "NoAttempt"       -> "enter_roll"
      [] decision = "RejectedUnknown" -> "roll_not_found"
      [] decision = "RejectedUsed"    -> "roll_already_used"
      [] OTHER                        -> "none"

----------------------------------------------------------------------------
(* C1: once a non-admin roll has been in the persisted used-list, every    *)
(* later Login with that roll, in a run that loaded the lists afterwards,  *)
(* is rejected: it does not set logged_in.                                 *)
C1_UsedRollNeverAdmitted ==
    [][ \A s \in Sessions :
          ( HandlerStep(s, "login") /\ seenUsed[s]
            /\ strip(text[s]) # ADMIN_ROLL )
          => ~session'[s].logged_in ]_vars

(* C2: the Login decision is the admission contract applied to the trimmed *)
(* input, the allow-list and the used-list the run loaded; only Admitted   *)
(* sets logged_in and user_roll (to the trimmed roll), every other         *)
(* decision shows its message and leaves the session as it was.            *)
C2_LoginIsAdmit ==
    [][ \A s \in Sessions :
          HandlerStep(s, "login") =>
            LET roll == strip(text[s])
                decision == admit(roll, allowed_rolls, Values(used_rolls[s]))
            IN  IF decision = "Admitted"
                THEN /\ session'[s].logged_in
                     /\ session'[s].user_roll = roll
                     /\ session'[s] = [session[s] EXCEPT !.logged_in = TRUE,
                                                         !.user_roll = roll]
                ELSE /\ session'[s] = session[s]
                     /\ ~session'[s].logged_in
                     /\ msg'[s] = ErrorOf(decision) ]_vars

C2_Witness ==
    \E s \in Sessions :
        /\ Finished(s, "login") /\ msg[s] = "roll_not_found"
        /\ strip(text[s]) \in UsedSet(usedFile)
        /\ strip(text[s]) \notin allowed_rolls
        /\ \E u \in Sessions : session[u].logged_in /\ session[u].user_roll = S1

(* C3: a non-admin roll with a successful Generate Certificate occurs in   *)
(* the persisted used-list exactly once, whatever happens afterwards.      *)
C3_IssuedRollListedOnce ==
    \A roll \in issued \ {ADMIN_ROLL} :
        Occurrences(StripColumn(usedFile.rows), roll) = 1

(* C4: no step of a session that is, or becomes, logged in as the admin    *)
(* changes the rows of the used-list, and no step adds the admin           *)
(* identifier to the used-list.                                            *)
C4_AdminLeavesUsedList ==
    [][ /\ \A s \in Sessions :
             ( pc'[s] # pc[s]
               /\ ( session[s].user_roll = ADMIN_ROLL
                    \/ session'[s].user_roll = ADMIN_ROLL ) )
             => usedFile'.rows = usedFile.rows
        /\ ADMIN_ROLL \notin UsedSet(usedFile)
             => ADMIN_ROLL \notin UsedSet(usedFile') ]_vars

C4_Witness ==
    \E s \in Sessions :
        /\ Finished(s, "generate") /\ msg[s] = "generated"
        /\ session[s].user_roll = ADMIN_ROLL /\ Offered(session[s])
        /\ ADMIN_ROLL \in issued
        /\ ADMIN_ROLL \notin UsedSet(usedFile)

(* C5: the set of rolls in the persisted used-list only grows: after every *)
(* step it is a superset of what it was before the step.                   *)
C5_UsedSetGrows ==
    [][ UsedSet(usedFile) \subseteq UsedSet(usedFile') ]_vars

(* C6: a Login that ends in the empty-roll warning or in an admission      *)
(* error, and a Generate Certificate with a name that is empty after       *)
(* trimming, change neither the session (which stays logged out in the     *)
(* Login case) nor the used-list set; nor does the load of any run.        *)
C6_ErrorsChangeNothing ==
    [][ \A s \in Sessions :
          /\ ( HandlerStep(s, "login")
               /\ msg'[s] \in {"enter_roll", "roll_not_found", "roll_already_used"} )
             => /\ session'[s] = session[s]
                /\ ~session'[s].logged_in
                /\ UsedSet(usedFile') = UsedSet(usedFile)
          /\ ( HandlerStep(s, "login")
               /\ admit(strip(text[s]), allowed_rolls, Values(used_rolls[s]))
                    # "Admitted" )
             => msg'[s] \in {"enter_roll", "roll_not_found", "roll_already_used"}
          /\ ( HandlerStep(s, "generate") /\ strip(text[s]) = <<>> )
             => /\ msg'[s] = "enter_name"
                /\ session'[s] = session[s]
                /\ UsedSet(usedFile') = UsedSet(usedFile)
          /\ LoadStep(s)
             => /\ session'[s] = session[s]
                /\ UsedSet(usedFile') = UsedSet(usedFile) ]_vars

C6_Witness ==
    \E s, u \in Sessions :
        /\ Finished(s, "login") /\ msg[s] = "roll_already_used"
        /\ ~session[s].logged_in
        /\ Finished(u, "generate") /\ msg[u] = "enter_name"
        /\ session[u].logged_in

(* C7: a Generate Certificate that ends in the generation error or in the  *)
(* template-missing error leaves the session exactly as it was.            *)
C7_FailedGenerateKeepsSession ==
    [][ \A s \in Sessions :
          ( HandlerStep(s, "generate")
            /\ msg'[s] \in {"error_generating", "template_not_found"} )
          => session'[s] = session[s] ]_vars

(* C8: Logout resets all five session fields and leaves the used-list      *)
(* alone; Generate Another resets certificate_generated, pdf_data and      *)
(* student_name only, leaves logged_in, user_roll and the used-list alone, *)
(* and runs only for an admin session that holds a generated certificate.  *)
C8_LogoutAndAnother ==
    [][ \A s \in Sessions :
          /\ HandlerStep(s, "logout")
             => /\ session'[s] =
                      [ logged_in |-> FALSE, user_roll |-> <<>>,
                        certificate_generated |-> FALSE, pdf_data |-> None,
                        student_name |-> <<>> ]
                /\ usedFile' = usedFile
          /\ HandlerStep(s, "another")
             => /\ session[s].user_roll = ADMIN_ROLL
                /\ session[s].certificate_generated
                /\ Truthy(session[s].pdf_data)
                /\ session'[s] =
                      [ logged_in |-> session[s].logged_in,
                        user_roll |-> session[s].user_roll,
                        certificate_generated |-> FALSE, pdf_data |-> None,
                        student_name |-> <<>> ]
                /\ session'[s].logged_in
                /\ usedFile' = usedFile ]_vars

C8_Witness ==
    \E s, u \in Sessions :
        /\ Finished(s, "another")
        /\ session[s].logged_in /\ session[s].user_roll = ADMIN_ROLL
        /\ ~session[s].certificate_generated
        /\ Finished(u, "logout") /\ ~session[u].logged_in
        /\ issued # {} /\ usedFile.rows # <<>>

(* C9: whenever a non-admin session has its certificate offered for        *)
(* download, its roll is in the persisted used-list.                       *)
C9_OfferedImpliesRecorded ==
    \A s \in Sessions :
        ( session[s].logged_in /\ session[s].user_roll # ADMIN_ROLL
          /\ Offered(session[s]) )
        => session[s].user_roll \in UsedSet(usedFile)

(* C9, first half: the used-list gains a roll only in the Generate         *)
(* Certificate handler of a logged-in non-admin session whose render       *)
(* succeeded.                                                              *)
C9_OnlyGenerateRecords ==
    [][ UsedSet(usedFile') # UsedSet(usedFile) =>
          \E s \in Sessions :
              /\ HandlerStep(s, "generate")
              /\ session[s].logged_in /\ session[s].user_roll # ADMIN_ROLL
              /\ Offered(session'[s]) ]_vars

(* C10: with interactions running one at a time, a successful Generate     *)
(* Certificate of a non-admin roll is the first one for that roll.         *)
C10_OneCertificatePerRoll ==
    [][ \A s \in Sessions :
          ( HandlerStep(s, "generate") /\ msg'[s] = "generated"
            /\ session[s].user_roll # ADMIN_ROLL )
          => session[s].user_roll \notin issued ]_vars

====
